---- MODULE Spec2Model ----
(***************************************************************************)
(* LifeRhythm dashboard (src/app.py): the remote judge client              *)
(* ask_ai_for_score_and_advice, the timeline renderer create_timeline_art  *)
(* and the Streamlit script that stores and displays the judge's result.   *)
(*                                                                         *)
(* Text is a sequence of one-character strings.  The Korean literals of    *)
(* the source are written as ASCII tokens (one sequence element each).     *)
(* Hours are counted in slider steps of 0.5 h (14 = 7.0 h).                *)
(***************************************************************************)
EXTENDS Integers, Sequences, FiniteSets

VARIABLES
    sliders,        \* the five slider widgets, in half hours (lines 153-157)
    session_state,  \* st.session_state: 'ai_score' and 'ai_advice'
    shown,          \* what the last script run displayed in the result column
    art_img,        \* the timeline strip the last script run drew
    pc,             \* "idle", or "waiting" inside requests.get (line 52)
    inflight,       \* HTTP requests sent and not yet answered
    requests,       \* HTTP GETs issued so far
    evals,          \* evaluate actions (button presses) so far
    reply,          \* the remote's answer to the most recent completed call
    lastCall,       \* the pair the most recent completed call returned
    crashed,        \* whether an exception escaped to the script
    last            \* the most recent interaction

vars == <<sliders, session_state, shown, art_img, pc, inflight, requests,
          evals, reply, lastCall, crashed, last>>

\* Python's None and a present value.
None == <<>>
Some(x) == <<x>>

(***************************************************************************)
(* Bounds of the model.                                                    *)
(***************************************************************************)
\* Longest response body, in chunks of BodyChunks.
MaxChunks == 4
\* Sliders that differ from their default value (timeline specification).
MaxMoved == 1
\* Evaluate actions in one session (session specification).
MaxEvals == 2

(***************************************************************************)
(* Text helpers: str.strip, str.replace, int, re.search.                   *)
(***************************************************************************)
Whitespace == {" ", "\n", "\t", "\r"}
DigitChars == <<"0", "1", "2", "3", "4", "5", "6", "7", "8", "9">>
IsSpace(c) == c \in Whitespace
IsDigit(c) == \E d \in 1..10 : DigitChars[d] = c
DigitVal(c) == (CHOOSE d \in 1..10 : DigitChars[d] = c) - 1

\* s[i..j] (1-based, inclusive); empty when j < i.
Slice(s, i, j) == [k \in 1..(j - i + 1) |-> s[i + k - 1]]

\* Whether sub occurs in s at position i.
OccursAt(s, sub, i) ==
    /\ i >= 1
    /\ i + Len(sub) - 1 <= Len(s)
    /\ \A k \in 1..Len(sub) : s[i + k - 1] = sub[k]

\* str.strip(): leading and trailing whitespace removed.
strip(s) ==
    IF \A k \in 1..Len(s) : IsSpace(s[k]) THEN <<>>
    ELSE LET a == CHOOSE i \in 1..Len(s) :
                     /\ ~IsSpace(s[i])
                     /\ \A k \in 1..(i - 1) : IsSpace(s[k])
             b == CHOOSE j \in 1..Len(s) :
                     /\ ~IsSpace(s[j])
                     /\ \A k \in (j + 1)..Len(s) : IsSpace(s[k])
         IN  Slice(s, a, b)

RECURSIVE ReplaceFrom(_, _, _)
ReplaceFrom(s, old, i) ==
    IF i > Len(s) THEN <<>>
    ELSE IF OccursAt(s, old, i) THEN ReplaceFrom(s, old, i + Len(old))
    ELSE <<s[i]>> \o ReplaceFrom(s, old, i + 1)

\* str.replace(old, ""): every non-overlapping occurrence of old removed,
\* scanning from the left (old is never empty here).
replace(s, old) == ReplaceFrom(s, old, 1)

RECURSIVE int(_)
\* int(text) for a run of decimal digits.
int(ds) ==
    IF ds = <<>> THEN 0
    ELSE 10 * int(SubSeq(ds, 1, Len(ds) - 1)) + DigitVal(ds[Len(ds)])

\* The literal of the pattern r"SCORE:\s*(\d+)".
ScorePrefix == <<"S", "C", "O", "R", "E", ":">>

\* First position >= i of s that does not satisfy the class (Len(s)+1 if none).
SpaceRunEnd(s, i) ==
    CHOOSE j \in i..(Len(s) + 1) :
        /\ \A k \in i..(j - 1) : IsSpace(s[k])
        /\ j = Len(s) + 1 \/ ~IsSpace(s[j])
DigitRunEnd(s, i) ==
    CHOOSE j \in i..(Len(s) + 1) :
        /\ \A k \in i..(j - 1) : IsDigit(s[k])
        /\ j = Len(s) + 1 \/ ~IsDigit(s[j])

\* Faulty variant of MatchesAt: the pattern without \s*, r"SCORE:(\d+)".
MatchesAt_no_space(s, i) ==
    /\ OccursAt(s, ScorePrefix, i)
    /\ i + Len(ScorePrefix) <= Len(s)
    /\ IsDigit(s[i + Len(ScorePrefix)])

\* Whether the pattern matches starting at position i: the literal, then the
\* (greedy) whitespace run, then at least one digit.
MatchesAt(s, i) ==
    /\ OccursAt(s, ScorePrefix, i)
    /\ LET d == SpaceRunEnd(s, i + Len(ScorePrefix))
       IN  d <= Len(s) /\ IsDigit(s[d])

\* re.search(r"SCORE:\s*(\d+)", s): None, or the leftmost match with
\* group0 = match.group(0) and group1 = match.group(1).
re_search(s) ==
    IF \A i \in 1..Len(s) : ~MatchesAt(s, i) THEN None
    ELSE LET i == CHOOSE p \in 1..Len(s) :
                     MatchesAt(s, p) /\ \A q \in 1..(p - 1) : ~MatchesAt(s, q)
             d == SpaceRunEnd(s, i + Len(ScorePrefix))
             e == DigitRunEnd(s, d)
         IN  Some([start |-> i,
                   group0 |-> Slice(s, i, e - 1),
                   group1 |-> Slice(s, d, e - 1)])

(***************************************************************************)
(* The remote judge client.  A response of the remote call is either       *)
(* [kind |-> "http", status, text] or [kind |-> "exception", exc]          *)
(* (requests.get raised).                                                  *)
(***************************************************************************)
Return(score, advice) == [kind |-> "return", score |-> score, advice |-> advice]
Raise(exc) == [kind |-> "raise", exc |-> exc]

\* "AI format is not valid. Content: " (line 66), "AI server connection
\* error." (line 68) and "Error: " (line 70).
FormatErrorPrefix == <<"AI format invalid. Content: ">>
ConnectionErrorAdvice == <<"AI server connection error.">>
ErrorPrefix == <<"Error: ">>

\* Faulty variant of parse_response: the fallback advice holds the stripped body.
parse_response_stripped_raw(full_text) ==
    LET match == re_search(full_text)
    IN  IF match # None
        THEN Return(int(match[1].group1),
                    strip(replace(full_text, match[1].group0)))
        ELSE Return(0, FormatErrorPrefix \o strip(full_text))

\* Lines 54-66: the body of the "status_code == 200" branch.
parse_response(full_text) ==
    LET match == re_search(full_text)
    IN  IF match # None
        THEN Return(int(match[1].group1),
                    strip(replace(full_text, match[1].group0)))
        ELSE Return(0, FormatErrorPrefix \o full_text)

\* Faulty variant of try_body: a body is parsed whatever the status is.
try_body_any_status(response) ==
    IF response.kind = "exception" THEN Raise(response.exc)
    ELSE parse_response(response.text)

\* Lines 52-68: the body of the try statement.
try_body(response) ==
    IF response.kind = "exception" THEN Raise(response.exc)
    ELSE IF response.status = 200 THEN parse_response(response.text)
    ELSE Return(0, ConnectionErrorAdvice)

\* Faulty variant of ask_ai_for_score_and_advice: no except clause.
ask_ai_no_except(response) == try_body(response)

\* Lines 51-70: try ... except Exception as e: return 0, f"Error: {e}".
ask_ai_for_score_and_advice(response) ==
    LET r == try_body(response)
    IN  IF r.kind = "raise" THEN Return(0, ErrorPrefix \o <<r.exc>>) ELSE r

(***************************************************************************)
(* Python floats (IEEE-754 binary64, round to nearest, ties to even) as    *)
(* exact fixed-point numbers: a value is <<l0, l1, l2, l3>>, the integer   *)
(* l0 + l1*2^16 + l2*2^32 + l3*2^48 counted in units of 2^-50 (2^-49 for   *)
(* pixels_per_hour).  Every value of create_timeline_art is a multiple of  *)
(* the unit and below 2^14.                                                *)
(***************************************************************************)
LimbBase == 2 ^ 16
\* Significant bits of a float.
MantissaBits == 53

Zero == <<0, 0, 0, 0>>

\* Carries propagated: every limb of the result is below LimbBase.
Norm(d) ==
    LET t1 == d[2] + (d[1] \div LimbBase)
        t2 == d[3] + (t1 \div LimbBase)
        t3 == d[4] + (t2 \div LimbBase)
    IN  <<d[1] % LimbBase, t1 % LimbBase, t2 % LimbBase, t3>>

\* Exact sum, exact product with a small integer, exact comparison.
AddExact(f, g) == Norm(<<f[1] + g[1], f[2] + g[2], f[3] + g[3], f[4] + g[4]>>)
MulSmall(f, n) == Norm(<<f[1] * n, f[2] * n, f[3] * n, f[4] * n>>)
Less(f, g) ==
    \E i \in 1..4 : f[i] < g[i] /\ \A j \in (i + 1)..4 : f[j] = g[j]
\* g - f for f <= g.
SubExact(g, f) ==
    LET b1 == IF g[1] < f[1] THEN 1 ELSE 0
        b2 == IF g[2] < f[2] + b1 THEN 1 ELSE 0
        b3 == IF g[3] < f[3] + b2 THEN 1 ELSE 0
    IN  <<g[1] + b1 * LimbBase - f[1],
          g[2] + b2 * LimbBase - f[2] - b1,
          g[3] + b3 * LimbBase - f[3] - b2,
          g[4] - f[4] - b3>>
\* |f - g|.
Dist(f, g) == IF Less(f, g) THEN SubExact(g, f) ELSE SubExact(f, g)

\* Quotient and remainder of f by a small integer d (long division).
DivSmall(f, d) ==
    LET q3 == f[4] \div d
        r3 == f[4] % d
        q2 == (r3 * LimbBase + f[3]) \div d
        r2 == (r3 * LimbBase + f[3]) % d
        q1 == (r2 * LimbBase + f[2]) \div d
        r1 == (r2 * LimbBase + f[2]) % d
        q0 == (r1 * LimbBase + f[1]) \div d
        r0 == (r1 * LimbBase + f[1]) % d
    IN  [quot |-> <<q0, q1, q2, q3>>, rem |-> r0]

\* Bits of f above the 53 a float keeps (f >= 2^48 has 48 + bits(l3) bits).
ExcessBits(f) ==
    LET top == Cardinality({j \in 0..15 : f[4] >= 2 ^ j})
    IN  IF 48 + top > MantissaBits THEN 48 + top - MantissaBits ELSE 0

\* The float nearest to the exact value f, ties to even.
RoundFloat(f) ==
    LET m == 2 ^ ExcessBits(f)
        rem == f[1] % m
        odd == (f[1] \div m) % 2 = 1
        up == 2 * rem > m \/ (2 * rem = m /\ odd)
    IN  Norm(<<f[1] - rem + (IF up THEN m ELSE 0), f[2], f[3], f[4]>>)

\* Float addition and float product with a number of half hours
\* (value h2/2): a * b and a + b round the exact result once.
FloatAdd(f, g) == RoundFloat(AddExact(f, g))

(***************************************************************************)
(* The timeline renderer.                                                  *)
(***************************************************************************)
\* data.items() order (line 167) and the slider range 0.0 .. 24.0 in steps
\* of 0.5 (lines 153-157), in half hours.
Categories == <<"Sleep", "Study", "Screen", "Exercise", "Social">>
SliderMax == 48
DefaultSliders == <<14, 12, 6, 2, 4>>

\* width, height = 1200, 150 (line 114); the day of line 120, in half hours.
Width == 1200
DayHalfHours == 48
\* The float 1200.0 in units of 2^-50.
WidthFloat == <<0, 0, 0, 4 * Width>>

RECURSIVE SumTo(_, _)
SumTo(data, n) == IF n = 0 THEN 0 ELSE SumTo(data, n - 1) + data[n]
\* sum(data.values()), in half hours (exact: every term is a multiple of 0.5).
total_input(data) == SumTo(data, Len(data))

\* Faulty variant of base_hours: the scale is always 24 hours.
base_hours_fixed(data) == DayHalfHours

\* max(24, total_input), in half hours.
base_hours(data) ==
    IF total_input(data) > DayHalfHours THEN total_input(data) ELSE DayHalfHours

\* width / base_hours as a float, in units of 2^-49: the quotient
\* 2 * Width / base (base in half hours) rounded to 53 significant bits.
\* It lies in [8, 64): its last place is 1, 2 or 4 units.
pixels_per_hour(data) ==
    LET b == base_hours(data)
        ulp == IF 2 * Width >= 32 * b THEN 4
               ELSE IF 2 * Width >= 16 * b THEN 2 ELSE 1
        dv == DivSmall(<<0, 0, 0, 4 * Width>>, ulp * b)
        odd == dv.quot[1] % 2 = 1
        up == 2 * dv.rem > ulp * b \/ (2 * dv.rem = ulp * b /\ odd)
    IN  MulSmall(AddExact(dv.quot, <<IF up THEN 1 ELSE 0, 0, 0, 0>>), ulp)

\* section_width = hours * pixels_per_hour (line 127), in units of 2^-50.
section_width(data, c) == RoundFloat(MulSmall(pixels_per_hour(data), data[c]))

RECURSIVE DrawSegments(_, _, _)
\* The loop of lines 125-130 from category c on, with current_x = x: the
\* rectangles drawn, in order, each [category, x0, x1].
DrawSegments(data, c, x) ==
    IF c > Len(data) THEN <<>>
    ELSE IF data[c] > 0
         THEN LET x1 == FloatAdd(x, section_width(data, c))
              IN  <<[category |-> Categories[c], x0 |-> x, x1 |-> x1]>>
                  \o DrawSegments(data, c + 1, x1)
         ELSE DrawSegments(data, c + 1, x)

\* current_x after the loop.
FinalX(segments) ==
    IF segments = <<>> THEN Zero ELSE segments[Len(segments)].x1

\* create_timeline_art(data): the rectangles drawn on the strip, and the
\* fallback rectangle of lines 132-133 when current_x < width.
create_timeline_art(data) ==
    LET segments == DrawSegments(data, 1, Zero)
        current_x == FinalX(segments)
    IN  [segments |-> segments,
         remainder |-> IF Less(current_x, WidthFloat)
                       THEN Some([x0 |-> current_x, x1 |-> WidthFloat])
                       ELSE None]

(***************************************************************************)
(* The Streamlit script (lines 141-232).  Every interaction reruns it from *)
(* the top; st.session_state and the widget values survive the rerun.      *)
(***************************************************************************)
StateKeys == {"ai_score", "ai_advice"}

\* Faulty variant of init_state: the keys are reset on every run.
init_state_always(ss) == [k \in StateKeys |-> None]

\* Lines 144-147: a key is set to None only when it is not there yet.
init_state(ss) ==
    [k \in DOMAIN ss \cup StateKeys |-> IF k \in DOMAIN ss THEN ss[k] ELSE None]

\* Faulty variant of store_result: a score of 0 does not replace a stored result.
store_result_unless_zero(ss, r) ==
    IF r.score = 0 /\ ss["ai_score"] # None THEN ss
    ELSE [ss EXCEPT !["ai_score"] = Some(r.score),
                    !["ai_advice"] = Some(r.advice)]

\* Lines 193-194.
store_result(ss, r) ==
    [ss EXCEPT !["ai_score"] = Some(r.score), !["ai_advice"] = Some(r.advice)]

\* Faulty variant of Display: a score of 0 counts as no result.
Display_truthy(ss) ==
    IF ss["ai_score"] # None /\ ss["ai_score"] # Some(0)
    THEN LET final_score == ss["ai_score"][1]
             final_advice == ss["ai_advice"][1]
         IN  [box |-> IF final_score >= 80 THEN "success"
                      ELSE IF final_score >= 50 THEN "warning" ELSE "error",
              metric |-> final_score,
              text |-> final_advice]
    ELSE [box |-> "info"]

\* Lines 197-212: st.metric and st.success / st.warning / st.error, or st.info.
Display(ss) ==
    IF ss["ai_score"] # None
    THEN LET final_score == ss["ai_score"][1]
             final_advice == ss["ai_advice"][1]
         IN  [box |-> IF final_score >= 80 THEN "success"
                      ELSE IF final_score >= 50 THEN "warning" ELSE "error",
              metric |-> final_score,
              text |-> final_advice]
    ELSE [box |-> "info"]

\* A slider is moved: the script reruns with the button not pressed;
\* input_data (line 167) holds the new slider values.
SliderChange(c, v) ==
    /\ pc = "idle"
    /\ v # sliders[c]
    /\ \E input_data \in {[sliders EXCEPT ![c] = v]} :
           /\ sliders' = input_data
           /\ art_img' = create_timeline_art(input_data)
    /\ session_state' = init_state(session_state)
    /\ shown' = Display(session_state')
    /\ last' = "slider"
    /\ UNCHANGED <<pc, inflight, requests, evals, reply, lastCall, crashed>>

\* Faulty variant of ButtonPress: the call does not block the session.
ButtonPress_async ==
    /\ session_state' = init_state(session_state)
    /\ pc' = "waiting"
    /\ requests' = requests + 1
    /\ inflight' = inflight + 1
    /\ evals' = evals + 1
    /\ last' = "press"
    /\ UNCHANGED <<sliders, shown, art_img, reply, lastCall, crashed>>

\* The button is pressed: the script reruns, st.button returns True and
\* ask_ai_for_score_and_advice issues its GET (lines 187-190, 52).
ButtonPress ==
    /\ pc = "idle"
    /\ session_state' = init_state(session_state)
    /\ pc' = "waiting"
    /\ requests' = requests + 1
    /\ inflight' = inflight + 1
    /\ evals' = evals + 1
    /\ last' = "press"
    /\ UNCHANGED <<sliders, shown, art_img, reply, lastCall, crashed>>

\* requests.get returns or raises: the call completes, its pair is stored
\* (lines 193-194) and the rest of the script runs (lines 197-232).  An
\* exception leaving the call would end the script run at line 190.
ButtonReturn(response) ==
    /\ pc = "waiting"
    /\ LET r == ask_ai_for_score_and_advice(response)
       IN  IF r.kind = "raise"
           THEN /\ crashed' = TRUE
                /\ shown' = [box |-> "exception"]
                /\ UNCHANGED <<session_state, art_img, lastCall>>
           ELSE /\ session_state' = store_result(session_state, r)
                /\ shown' = Display(session_state')
                /\ art_img' = create_timeline_art(sliders)
                /\ lastCall' = Some(<<r.score, r.advice>>)
                /\ UNCHANGED crashed
    /\ pc' = "idle"
    /\ inflight' = inflight - 1
    /\ reply' = Some(response)
    /\ last' = "return"
    /\ UNCHANGED <<sliders, requests, evals>>

\* The session after the first script run.
Init ==
    /\ sliders = DefaultSliders
    /\ session_state = init_state(<<>>)
    /\ shown = Display(session_state)
    /\ art_img = create_timeline_art(sliders)
    /\ pc = "idle"
    /\ inflight = 0
    /\ requests = 0
    /\ evals = 0
    /\ reply = None
    /\ lastCall = None
    /\ crashed = FALSE
    /\ last = "start"

(***************************************************************************)
(* Inputs.                                                                 *)
(***************************************************************************)
\* Number of sliders away from their default.
Moved(s) == Cardinality({c \in 1..Len(s) : s[c] # DefaultSliders[c]})

\* Response bodies: concatenations of at most MaxChunks of these chunks.
BodyChunks == <<ScorePrefix, <<" ">>, <<"\n">>, <<"a">>, <<"7">>, <<"9">>>>
RECURSIVE Flatten(_)
Flatten(cs) ==
    IF cs = <<>> THEN <<>> ELSE BodyChunks[Head(cs)] \o Flatten(Tail(cs))
Bodies ==
    {Flatten(cs) : cs \in UNION {[1..n -> 1..Len(BodyChunks)] : n \in 0..MaxChunks}}

Http(status, text) == [kind |-> "http", status |-> status, text |-> text]
Exception(exc) == [kind |-> "exception", exc |-> exc]
Statuses == {200, 404, 500}
Exceptions == {"ConnectionError", "ReadTimeout"}
Responses ==
    {Http(st, b) : st \in Statuses, b \in Bodies}
        \cup {Exception(e) : e \in Exceptions}

\* Responses of the session specification: one per path and display tier.
SessionBodies ==
    { ScorePrefix \o <<" ", "8", "3", "\n", "a">>,
      ScorePrefix \o <<" ", "8", "0">>,
      ScorePrefix \o <<" ", "7", "9", "\n", "a">>,
      ScorePrefix \o <<"5", "0", " ", "a">>,
      ScorePrefix \o <<"4", "9">>,
      ScorePrefix \o <<" ", "0", "\n", "a">>,
      ScorePrefix \o <<" ", "1", "5", "0">>,
      <<"a", " ", "a">> }
SessionResponses ==
    {Http(200, b) : b \in SessionBodies}
        \cup {Http(500, ScorePrefix \o <<" ", "8", "3">>), Exception("ConnectionError")}
\* Slider values of the session specification: both ends of the range.
SessionHours == {0, SliderMax}

(***************************************************************************)
(* Specifications.                                                         *)
(***************************************************************************)
\* The session: slider changes and evaluations interleaved.
Next ==
    \/ \E c \in 1..Len(Categories), v \in SessionHours :
           Moved([sliders EXCEPT ![c] = v]) <= MaxMoved /\ SliderChange(c, v)
    \/ evals < MaxEvals /\ ButtonPress
    \/ pc = "waiting" /\ \E response \in SessionResponses : ButtonReturn(response)

Spec == Init /\ [][Next]_vars

\* The judge client alone: one call, over every response of Responses.
InitJudge ==
    /\ sliders = DefaultSliders
    /\ session_state = init_state(<<>>)
    /\ shown = Display(session_state)
    /\ art_img = create_timeline_art(sliders)
    /\ pc = "waiting"
    /\ inflight = 1
    /\ requests = 1
    /\ evals = 1
    /\ reply = None
    /\ lastCall = None
    /\ crashed = FALSE
    /\ last = "press"

NextJudge == pc = "waiting" /\ \E response \in Responses : ButtonReturn(response)

SpecJudge == InitJudge /\ [][NextJudge]_vars

\* The timeline renderer alone: every input with at most MaxMoved sliders
\* away from their default, each slider moved once and to any value.
NextTimeline ==
    \E c \in 1..Len(Categories), v \in 0..SliderMax :
        /\ sliders[c] = DefaultSliders[c]
        /\ Moved(sliders) < MaxMoved
        /\ SliderChange(c, v)

SpecTimeline == Init /\ [][NextTimeline]_vars

(***************************************************************************)
(* Vocabulary of the properties, stated apart from the model's operators.  *)
(***************************************************************************)
\* The response and the returned pair of the most recent completed call.
Answered == reply # None
ReplyText == reply[1].text
IsHttp(status) == Answered /\ reply[1].kind = "http" /\ reply[1].status = status
IsHttpOk == IsHttp(200)
CallScore == lastCall[1][1]
CallAdvice == lastCall[1][2]
StoredScore == session_state["ai_score"]
StoredAdvice == session_state["ai_advice"]

\* A score token at position i of s: "SCORE:", any whitespace, then a digit
\* at position d.
TokenDigitAt(s, i, d) ==
    /\ OccursAt(s, ScorePrefix, i)
    /\ d \in (i + Len(ScorePrefix))..Len(s)
    /\ \A k \in (i + Len(ScorePrefix))..(d - 1) : s[k] \in {" ", "\n", "\t", "\r"}
    /\ IsDigit(s[d])
HasToken(s) == \E i \in 1..Len(s), d \in 1..Len(s) : TokenDigitAt(s, i, d)
FirstToken(s) ==
    CHOOSE i \in 1..Len(s) :
        /\ \E d \in 1..Len(s) : TokenDigitAt(s, i, d)
        /\ \A j \in 1..(i - 1) : ~\E d \in 1..Len(s) : TokenDigitAt(s, j, d)
\* The strict token of the original wording: the digit follows at once.
StrictTokenAt(s, i) == TokenDigitAt(s, i, i + Len(ScorePrefix))
HasStrictToken(s) == \E i \in 1..Len(s) : StrictTokenAt(s, i)
FirstStrictToken(s) ==
    CHOOSE i \in 1..Len(s) :
        StrictTokenAt(s, i) /\ \A j \in 1..(i - 1) : ~StrictTokenAt(s, j)
\* The digit run that starts at d, and the decimal number it spells.
DigitsFrom(s, d) ==
    LET e == CHOOSE j \in d..Len(s) :
                 /\ \A k \in d..j : IsDigit(s[k])
                 /\ j = Len(s) \/ ~IsDigit(s[j + 1])
    IN  SubSeq(s, d, e)
RECURSIVE Decimal(_, _)
Decimal(acc, ds) ==
    IF ds = <<>> THEN acc ELSE Decimal(10 * acc + DigitVal(Head(ds)), Tail(ds))
TokenValue(s, i) ==
    LET d == CHOOSE k \in 1..Len(s) : TokenDigitAt(s, i, k)
    IN  Decimal(0, DigitsFrom(s, d))
\* The end (last position) of the token that starts at i.
TokenEnd(s, i) ==
    LET d == CHOOSE k \in 1..Len(s) : TokenDigitAt(s, i, k)
    IN  d + Len(DigitsFrom(s, d)) - 1

(***************************************************************************)
(* Properties of the session (specification Spec).                         *)
(***************************************************************************)
\* C1: the stored and displayed JudgeResult is the pair returned by the most
\* recent completed call of ask_ai_for_score_and_advice (absent before the
\* first one), also when that call ended on a failure path with score 0.
C1_LatestResultStored ==
    /\ lastCall = None => StoredScore = None /\ StoredAdvice = None
    /\ lastCall # None =>
          /\ StoredScore = Some(CallScore)
          /\ StoredAdvice = Some(CallAdvice)
          /\ shown.metric = CallScore
          /\ shown.text = CallAdvice

\* C1 witness: a second evaluation has completed on a failure path and its
\* score 0 is what is stored.
C1_Witness ==
    /\ evals = 2
    /\ pc = "idle"
    /\ reply = Some(Exception("ConnectionError"))
    /\ StoredScore = Some(0)
    /\ StoredAdvice = Some(<<"Error: ", "ConnectionError">>)

\* C7: a step that changes the RoutineInput leaves the stored result and
\* what is displayed unchanged and issues no request.
C7_SliderKeepsResult ==
    [][sliders' # sliders =>
          /\ session_state' = session_state
          /\ shown' = shown
          /\ requests' = requests
          /\ inflight' = inflight]_vars

\* C7 witness: a slider was moved after a completed evaluation and the
\* result of that evaluation is still displayed.
C7_Witness ==
    /\ last = "slider"
    /\ sliders # DefaultSliders
    /\ StoredScore = Some(83)
    /\ shown = [box |-> "success", metric |-> 83, text |-> <<"a">>]

\* C8: the neutral prompt is shown exactly when no result is stored, which
\* is exactly before the first completed evaluation; otherwise score and
\* advice are shown, as success from 80, as caution from 50 to 79 and as
\* alarm below 50.
C8_DisplayTiers ==
    /\ shown.box = "info" <=> StoredScore = None
    /\ shown.box = "info" <=> lastCall = None
    /\ StoredScore # None =>
          /\ shown.metric = StoredScore[1]
          /\ shown.text = StoredAdvice[1]
          /\ StoredScore[1] >= 80 => shown.box = "success"
          /\ StoredScore[1] >= 50 /\ StoredScore[1] < 80 => shown.box = "warning"
          /\ StoredScore[1] < 50 => shown.box = "error"

\* C8 witness: the failure result of a non-200 answer is shown in the alarm
\* tier.
C8_Witness ==
    /\ IsHttp(500)
    /\ pc = "idle"
    /\ shown = [box |-> "error", metric |-> 0, text |-> ConnectionErrorAdvice]

\* C10: the GETs issued equal the evaluate actions performed (a failed call
\* is not retried) and at most one request is in flight, namely while the
\* session is blocked in the call.
C10_OneRequestPerEvaluate ==
    /\ requests = evals
    /\ inflight <= 1
    /\ inflight = (IF pc = "waiting" THEN 1 ELSE 0)

\* C10 witness: two evaluations, the last one failed, two requests.
C10_Witness ==
    /\ evals = 2
    /\ requests = 2
    /\ pc = "idle"
    /\ IsHttp(500)
    /\ CallScore = 0

(***************************************************************************)
(* Properties of the judge client (specification SpecJudge).               *)
(***************************************************************************)
\* C2: whatever the remote call does, the call returns a (score, advice)
\* pair and no exception reaches the script; when the remote call raises,
\* the pair is score 0 with the exception's description in the advice.
C2_NoExceptionEscapes ==
    Answered =>
        /\ ~crashed
        /\ lastCall # None
        /\ Len(lastCall[1]) = 2
        /\ CallScore \in Nat
        /\ reply[1].kind = "exception" =>
               /\ CallScore = 0
               /\ CallAdvice = <<"Error: ", reply[1].exc>>

\* C2 witness: requests.get raised and the call returned the error pair.
C2_Witness ==
    /\ reply = Some(Exception("ReadTimeout"))
    /\ ~crashed
    /\ lastCall = Some(<<0, <<"Error: ", "ReadTimeout">>>>)

C4_Original ==
    IsHttpOk /\ HasToken(ReplyText) =>
        LET i == FirstToken(ReplyText)
        IN  CallAdvice =
                strip(SubSeq(ReplyText, 1, i - 1)
                      \o SubSeq(ReplyText, TokenEnd(ReplyText, i) + 1,
                                Len(ReplyText)))

\* C5: on a 200 whose body holds no score token the call returns score 0
\* and the diagnostic message followed by the whole body, unmodified.
C5_RawBodyReported ==
    IsHttpOk /\ ~HasToken(ReplyText) =>
        /\ CallScore = 0
        /\ Len(CallAdvice) = Len(FormatErrorPrefix) + Len(ReplyText)
        /\ SubSeq(CallAdvice, 1, Len(FormatErrorPrefix)) = FormatErrorPrefix
        /\ \A k \in 1..Len(ReplyText) :
               CallAdvice[Len(FormatErrorPrefix) + k] = ReplyText[k]

\* C5 witness: a body with leading whitespace and a prefix no digit follows.
C5_Witness ==
    /\ IsHttpOk
    /\ ReplyText = <<" ">> \o ScorePrefix \o <<"a", "7">>
    /\ lastCall = Some(<<0, FormatErrorPrefix \o ReplyText>>)

\* C6: on a status other than 200 the call returns score 0 and the fixed
\* connection-error advice, whatever the body holds, and raises nothing.
C6_Non200Fixed ==
    Answered /\ reply[1].kind = "http" /\ reply[1].status # 200 =>
        /\ ~crashed
        /\ lastCall = Some(<<0, <<"AI server connection error.">>>>)

\* C6 witness: a 500 whose body is a well-formed score token.
C6_Witness ==
    /\ IsHttp(500)
    /\ ReplyText = ScorePrefix \o <<" ", "7", "9">>
    /\ CallScore = 0
    /\ CallAdvice = ConnectionErrorAdvice

(***************************************************************************)
(* Properties of the timeline renderer (specification SpecTimeline).       *)
(* Lengths are in units of 2^-50 pixel, hours in half hours.               *)
(***************************************************************************)
TotalHalfHours == sliders[1] + sliders[2] + sliders[3] + sliders[4] + sliders[5]
ScaleHalfHours == IF TotalHalfHours > 48 THEN TotalHalfHours ELSE 48
Drawn == art_img.segments
HasHours(c) == sliders[c] > 0
\* The categories with hours > 0, in the fixed order.
DrawnCategories == SelectSeq(<<1, 2, 3, 4, 5>>, HasHours)
\* Where the last segment ends.
EndX == IF Drawn = <<>> THEN Zero ELSE Drawn[Len(Drawn)].x1
\* The rounding tolerance: 2^-36 pixel.
Tolerance == <<2 ^ 14, 0, 0, 0>>
LessEq(f, g) == ~Less(g, f)
\* The segments are the categories with hours > 0, in order, each starting
\* where the one before ends, the first at x = 0.
Contiguous ==
    /\ Len(Drawn) = Len(DrawnCategories)
    /\ \A k \in 1..Len(Drawn) :
          /\ Drawn[k].category = Categories[DrawnCategories[k]]
          /\ Drawn[k].x0 = (IF k = 1 THEN Zero ELSE Drawn[k - 1].x1)
          /\ LessEq(Drawn[k].x0, Drawn[k].x1)
\* width * max(24, total) and hours * 1200 for segment k: equal exactly when
\* the width is hours * 1200 / max(24, total).
DrawnWidthScaled(k) ==
    MulSmall(SubExact(Drawn[k].x1, Drawn[k].x0), ScaleHalfHours)
ExactWidthScaled(k) == MulSmall(<<0, 0, 0, 4800>>, sliders[DrawnCategories[k]])
FallbackTo1200 == Some([x0 |-> EndX, x1 |-> <<0, 0, 0, 4800>>])

\* C9 as written: contiguous segments in the fixed order from x = 0, each
\* of width hours * 1200 / max(24, total) (within the rounding tolerance);
\* the fallback remainder is there exactly when total < 24.
C9_Original ==
    /\ Contiguous
    /\ \A k \in 1..Len(Drawn) :
          LessEq(Dist(DrawnWidthScaled(k), ExactWidthScaled(k)),
                 MulSmall(Tolerance, ScaleHalfHours))
    /\ art_img.remainder # None <=> TotalHalfHours < 48

\* C9 as amended: contiguous segments in the fixed order from x = 0, each
\* of width hours * 1200 / max(24, total) within the rounding tolerance
\* (exactly when total <= 24); the fallback remainder runs from the end of
\* the last segment to 1200 and is drawn always when total < 24, never when
\* total = 24, and when total > 24 exactly when rounding leaves the end of
\* the last segment below 1200, which it misses by no more than the
\* tolerance on either side.
C9_TimelineWithinRounding ==
    /\ Contiguous
    /\ \A k \in 1..Len(Drawn) :
          LessEq(Dist(DrawnWidthScaled(k), ExactWidthScaled(k)),
                 MulSmall(Tolerance, ScaleHalfHours))
    /\ TotalHalfHours <= 48 =>
          /\ \A k \in 1..Len(Drawn) : DrawnWidthScaled(k) = ExactWidthScaled(k)
          /\ EndX = <<0, 0, 0, 100 * TotalHalfHours>>
    /\ TotalHalfHours < 48 => art_img.remainder = FallbackTo1200
    /\ TotalHalfHours = 48 => art_img.remainder = None
    /\ TotalHalfHours > 48 =>
          /\ LessEq(Dist(EndX, <<0, 0, 0, 4800>>), Tolerance)
          /\ art_img.remainder =
                (IF Less(EndX, <<0, 0, 0, 4800>>) THEN FallbackTo1200 ELSE None)

\* C9 witness: Sleep at 15.0 h, the others at their defaults (27 h in all):
\* the segments end a rounding error below 1200 and the fallback is drawn.
C9_Witness ==
    /\ sliders = <<30, 12, 6, 2, 4>>
    /\ Len(Drawn) = 5
    /\ Less(EndX, <<0, 0, 0, 4800>>)
    /\ art_img.remainder = FallbackTo1200

====
